---- MODULE Spec2Model ----
(***************************************************************************)
(* Model of the streaming tee of the LLM logging proxy (src/src/proxy.rs)  *)
(* and of its incremental wire-format parsers (src/src/parsers/*.rs).      *)
(*                                                                         *)
(* Bytes are the integers 0..255; a byte string is a sequence of bytes.    *)
(* A decoded string (Rust str) is a sequence of Unicode code points.       *)
(* Option<u32> is a sequence of length 0 (None) or 1 (Some(n)).            *)
(***************************************************************************)
EXTENDS Integers, Sequences, FiniteSets, TLC

None == <<>>
Some(n) == <<n>>
IsSome(o) == Len(o) = 1

\* TokenUsage::default(): both fields absent.
TokenUsageDefault == [prompt_tokens |-> None, completion_tokens |-> None]

Drop(s, n) == SubSeq(s, n + 1, Len(s))
Take(s, n) == SubSeq(s, 1, n)

(***************************************************************************)
(* serde_json on the subset of JSON the modelled streams are written in:   *)
(* objects, strings without escapes, true, false, null and unsigned        *)
(* integers, with JSON whitespace between tokens.  Anything else is a      *)
(* decode error.  `hi` is the largest code accepted inside a string: 127   *)
(* for from_slice (the streams carry no well-formed multi-byte character   *)
(* inside a JSON string), the largest code point for from_str.             *)
(***************************************************************************)
JsonFail == [ok |-> FALSE, val |-> [t |-> "null"], next |-> 0]
JsonOk(v, n) == [ok |-> TRUE, val |-> v, next |-> n]

IsJsonWs(b) == b \in {32, 9, 10, 13}
IsDigit(b) == b >= 48 /\ b <= 57

RECURSIVE SkipWs(_, _)
SkipWs(s, i) ==
    IF i <= Len(s) /\ IsJsonWs(s[i]) THEN SkipWs(s, i + 1) ELSE i

\* Index of the closing quote of a string whose content starts at i; 0 if none.
RECURSIVE StrEnd(_, _, _)
StrEnd(s, i, hi) ==
    IF i > Len(s) THEN 0
    ELSE IF s[i] = 34 THEN i
    ELSE IF s[i] = 92 \/ s[i] < 32 \/ s[i] > hi THEN 0
    ELSE StrEnd(s, i + 1, hi)

RECURSIVE NumEnd(_, _)
NumEnd(s, i) == IF i <= Len(s) /\ IsDigit(s[i]) THEN NumEnd(s, i + 1) ELSE i

RECURSIVE NumVal(_, _, _, _)
NumVal(s, i, j, acc) ==
    IF i >= j THEN acc ELSE NumVal(s, i + 1, j, acc * 10 + (s[i] - 48))

Match(s, i, lit) ==
    /\ i + Len(lit) - 1 <= Len(s)
    /\ SubSeq(s, i, i + Len(lit) - 1) = lit

\* The counts are u32.  An integer of more than MaxDigits digits is taken as
\* out of range: exact above 4294967295, and no modelled stream carries a
\* number between 10^9 and 2^32.
MaxDigits == 9

RECURSIVE ParseValue(_, _, _)
RECURSIVE ParseMembers(_, _, _, _)

ParseNumber(s, j) ==
    LET e == NumEnd(s, j) IN
    IF s[j] = 48 /\ e > j + 1 THEN JsonFail                 \* leading zero
    ELSE IF e <= Len(s) /\ s[e] \in {46, 69, 101} THEN JsonFail  \* not an unsigned integer
    ELSE IF e - j > MaxDigits THEN JsonFail                 \* see MaxDigits
    ELSE JsonOk([t |-> "num", n |-> NumVal(s, j, e, 0)], e)

ParseValue(s, i, hi) ==
    LET j == SkipWs(s, i) IN
    IF j > Len(s) THEN JsonFail
    ELSE IF s[j] = 123 THEN
        LET k == SkipWs(s, j + 1) IN
        IF k <= Len(s) /\ s[k] = 125
        THEN JsonOk([t |-> "obj", m |-> <<>>], k + 1)
        ELSE ParseMembers(s, k, hi, <<>>)
    ELSE IF s[j] = 34 THEN
        LET e == StrEnd(s, j + 1, hi) IN
        IF e = 0 THEN JsonFail ELSE JsonOk([t |-> "str"], e + 1)
    ELSE IF Match(s, j, <<116, 114, 117, 101>>)
        THEN JsonOk([t |-> "bool", b |-> TRUE], j + 4)
    ELSE IF Match(s, j, <<102, 97, 108, 115, 101>>)
        THEN JsonOk([t |-> "bool", b |-> FALSE], j + 5)
    ELSE IF Match(s, j, <<110, 117, 108, 108>>)
        THEN JsonOk([t |-> "null"], j + 4)
    ELSE IF IsDigit(s[j]) THEN ParseNumber(s, j)
    ELSE JsonFail

\* The members of an object from the first key at i, up to and including '}'.
ParseMembers(s, i, hi, acc) ==
    IF i > Len(s) \/ s[i] # 34 THEN JsonFail
    ELSE
      LET e == StrEnd(s, i + 1, hi) IN
      IF e = 0 THEN JsonFail
      ELSE
        LET c == SkipWs(s, e + 1) IN
        IF c > Len(s) \/ s[c] # 58 THEN JsonFail
        ELSE
          LET r == ParseValue(s, c + 1, hi) IN
          IF ~r.ok THEN JsonFail
          ELSE
            LET mem == [k |-> SubSeq(s, i + 1, e - 1), v |-> r.val]
                n == SkipWs(s, r.next)
            IN  IF n > Len(s) THEN JsonFail
                ELSE IF s[n] = 125
                    THEN JsonOk([t |-> "obj", m |-> Append(acc, mem)], n + 1)
                ELSE IF s[n] = 44
                    THEN ParseMembers(s, SkipWs(s, n + 1), hi, Append(acc, mem))
                ELSE JsonFail

\* One whole document: a value, then nothing but whitespace.
ParseDocument(s, hi) ==
    LET r == ParseValue(s, 1, hi) IN
    IF r.ok /\ SkipWs(s, r.next) > Len(s) THEN r ELSE JsonFail

(***************************************************************************)
(* The derived Deserialize of the wire structs (src/src/types.rs): a JSON  *)
(* object whose unknown keys are ignored, whose known keys may appear once *)
(* and must have the field's type.                                         *)
(***************************************************************************)
KeyCount(m, k) == Cardinality({i \in 1..Len(m) : m[i].k = k})
KeyValue(m, k) == m[CHOOSE i \in 1..Len(m) : m[i].k = k].v

\* Option<u32>: null is None, an unsigned integer is Some.
OptU32Ok(v) == v.t = "null" \/ v.t = "num"
OptU32(v) == IF v.t = "num" THEN Some(v.n) ELSE None
U32Ok(v) == v.t = "num"

KeyDone == <<100, 111, 110, 101>>
KeyPromptEvalCount == <<112, 114, 111, 109, 112, 116, 95, 101, 118, 97, 108, 95, 99, 111, 117, 110, 116>>
KeyEvalCount == <<101, 118, 97, 108, 95, 99, 111, 117, 110, 116>>
KeyUsage == <<117, 115, 97, 103, 101>>
KeyPromptTokens == <<112, 114, 111, 109, 112, 116, 95, 116, 111, 107, 101, 110, 115>>
KeyCompletionTokens == <<99, 111, 109, 112, 108, 101, 116, 105, 111, 110, 95, 116, 111, 107, 101, 110, 115>>

OllamaDecodeError == [ok |-> FALSE, done |-> FALSE,
                      prompt_eval_count |-> None, eval_count |-> None]

\* struct OllamaStreamResponse, every field #[serde(default)].
OllamaStreamResponse(r) ==
    IF ~r.ok \/ r.val.t # "obj" THEN OllamaDecodeError
    ELSE
      LET m == r.val.m
          has(k) == KeyCount(m, k) > 0
      IN  IF \/ KeyCount(m, KeyDone) > 1
             \/ KeyCount(m, KeyPromptEvalCount) > 1
             \/ KeyCount(m, KeyEvalCount) > 1
             \/ (has(KeyDone) /\ KeyValue(m, KeyDone).t # "bool")
             \/ (has(KeyPromptEvalCount) /\ ~OptU32Ok(KeyValue(m, KeyPromptEvalCount)))
             \/ (has(KeyEvalCount) /\ ~OptU32Ok(KeyValue(m, KeyEvalCount)))
          THEN OllamaDecodeError
          ELSE [ok |-> TRUE,
                done |-> IF has(KeyDone) THEN KeyValue(m, KeyDone).b ELSE FALSE,
                prompt_eval_count |->
                    IF has(KeyPromptEvalCount)
                    THEN OptU32(KeyValue(m, KeyPromptEvalCount)) ELSE None,
                eval_count |->
                    IF has(KeyEvalCount)
                    THEN OptU32(KeyValue(m, KeyEvalCount)) ELSE None]

\* struct OpenAIUsage: both fields required, u32.
OpenAIUsageOk(v) ==
    /\ v.t = "obj"
    /\ KeyCount(v.m, KeyPromptTokens) = 1
    /\ KeyCount(v.m, KeyCompletionTokens) = 1
    /\ U32Ok(KeyValue(v.m, KeyPromptTokens))
    /\ U32Ok(KeyValue(v.m, KeyCompletionTokens))

OpenAIDecodeError == [ok |-> FALSE, usage |-> None]

\* struct OpenAIResponse { usage: Option<OpenAIUsage> }; usage is None or
\* Some of the pair <<prompt_tokens, completion_tokens>>.
OpenAIResponse(r) ==
    IF ~r.ok \/ r.val.t # "obj" THEN OpenAIDecodeError
    ELSE
      LET m == r.val.m IN
      IF KeyCount(m, KeyUsage) > 1 THEN OpenAIDecodeError
      ELSE IF KeyCount(m, KeyUsage) = 0 \/ KeyValue(m, KeyUsage).t = "null"
          THEN [ok |-> TRUE, usage |-> None]
      ELSE IF ~OpenAIUsageOk(KeyValue(m, KeyUsage)) THEN OpenAIDecodeError
      ELSE [ok |-> TRUE,
            usage |-> Some(<<KeyValue(KeyValue(m, KeyUsage).m, KeyPromptTokens).n,
                             KeyValue(KeyValue(m, KeyUsage).m, KeyCompletionTokens).n>>)]

\* serde_json::from_slice::<OllamaStreamResponse>(bytes)
OllamaFromSlice(bytes) == OllamaStreamResponse(ParseDocument(bytes, 127))
\* serde_json::from_str::<OpenAIResponse>(str)
OpenAIFromStr(str) == OpenAIResponse(ParseDocument(str, 1114111))

(***************************************************************************)
(* Parser state.  buffer and token_usage are the fields of OllamaParser    *)
(* and OpenAIParser; kind is the implementation behind the                 *)
(* Box<dyn BackendStreamParser>; panicked records that a call unwound.     *)
(* cuts (the argument of every split_to, in order) and decodes (the number *)
(* of serde_json calls made) are history, read by no operation.            *)
(***************************************************************************)
ParserNew(kind) ==
    [kind |-> kind, buffer |-> <<>>, token_usage |-> TokenUsageDefault,
     panicked |-> FALSE, cuts |-> <<>>, decodes |-> 0]

\* buffer.iter().position(|&b| b == b'\n'), 1-based; 0 when there is none.
MinOf(S) == CHOOSE x \in S : \A y \in S : x <= y

NewlinePos(buf) ==
    LET at == {i \in 1..Len(buf) : buf[i] = 10} IN
    IF at = {} THEN 0 ELSE MinOf(at)

\* <[u8]>::trim_ascii().is_empty()
TrimAsciiIsEmpty(line) == \A i \in 1..Len(line) : line[i] \in {32, 9, 10, 12, 13}

\* A variant of the merge that overwrites both fields with what the line holds.
OllamaMergeOverwrites(usage, resp) ==
    IF resp.ok /\ resp.done
    THEN [prompt_tokens |-> resp.prompt_eval_count,
          completion_tokens |-> resp.eval_count]
    ELSE usage

\* A variant of the merge that takes the counts of any decoded line.
OllamaMergeIgnoresDone(usage, resp) ==
    IF resp.ok
    THEN [prompt_tokens |-> IF IsSome(resp.prompt_eval_count)
                            THEN resp.prompt_eval_count ELSE usage.prompt_tokens,
          completion_tokens |-> IF IsSome(resp.eval_count)
                                THEN resp.eval_count ELSE usage.completion_tokens]
    ELSE usage

\* The update a decoded Ollama response makes: only when done, field by field.
OllamaMerge(usage, resp) ==
    IF resp.ok /\ resp.done
    THEN [prompt_tokens |-> IF IsSome(resp.prompt_eval_count)
                            THEN resp.prompt_eval_count ELSE usage.prompt_tokens,
          completion_tokens |-> IF IsSome(resp.eval_count)
                                THEN resp.eval_count ELSE usage.completion_tokens]
    ELSE usage

\* OllamaParser::process_lines
RECURSIVE OllamaProcessLines(_)
OllamaProcessLines(p) ==
    LET pos == NewlinePos(p.buffer) IN
    IF pos = 0 THEN p
    ELSE
      LET line == Take(p.buffer, pos)
          rest == [p EXCEPT !.buffer = Drop(p.buffer, pos),
                            !.cuts = Append(@, pos)]
      IN  IF TrimAsciiIsEmpty(line) THEN OllamaProcessLines(rest)
          ELSE OllamaProcessLines(
                 [rest EXCEPT !.token_usage = OllamaMerge(@, OllamaFromSlice(line)),
                              !.decodes = @ + 1])

\* A feed_chunk that forgets the partial line of the previous chunk.
OllamaFeedChunkNoCarry(p, chunk) ==
    OllamaProcessLines([p EXCEPT !.buffer = chunk])

\* OllamaParser::feed_chunk
OllamaFeedChunk(p, chunk) ==
    OllamaProcessLines([p EXCEPT !.buffer = @ \o chunk])

\* A finalize that returns the accumulator without looking at the buffer.
OllamaFinalizeIgnoresResidual(p) == p

\* OllamaParser::finalize; the returned usage is the token_usage of the result.
OllamaFinalize(p) ==
    IF p.buffer # <<>>
    THEN [p EXCEPT !.token_usage = OllamaMerge(@, OllamaFromSlice(p.buffer)),
                   !.decodes = @ + 1]
    ELSE p

(***************************************************************************)
(* String::from_utf8_lossy: ASCII bytes and well-formed two-byte sequences *)
(* decode to their code point; any other byte becomes U+FFFD (65533).      *)
(* Exact for byte strings with no byte in 0xE0..0xF4.                      *)
(***************************************************************************)
FromUtf8Lossy(bytes) ==
    LET n == Len(bytes)
        \* i starts a well-formed two-byte sequence
        pair(i) == /\ bytes[i] >= 194 /\ bytes[i] <= 223
                   /\ i < n /\ bytes[i + 1] >= 128 /\ bytes[i + 1] <= 191
        \* i is the second byte of one (a lead byte is never a second byte)
        second(i) == i > 1 /\ pair(i - 1)
        starts == SelectSeq([i \in 1..n |-> i], LAMBDA i : ~second(i))
        char(i) == IF bytes[i] < 128 THEN bytes[i]
                   ELSE IF pair(i) THEN (bytes[i] - 192) * 64 + (bytes[i + 1] - 128)
                   ELSE 65533
    IN  [k \in 1..Len(starts) |-> char(starts[k])]

\* The length in bytes of the UTF-8 encoding of the first n characters of str
\* (char::len_utf8 summed).
Utf8Len(str, n) ==
    n + Cardinality({k \in 1..n : str[k] >= 128})
      + Cardinality({k \in 1..n : str[k] >= 2048})
      + Cardinality({k \in 1..n : str[k] >= 65536})

\* The index of the first character of the first "\n\n" in seq; 0 when none.
BlankLineAt(seq) ==
    LET at == {i \in 1..(Len(seq) - 1) : seq[i] = 10 /\ seq[i + 1] = 10} IN
    IF at = {} THEN 0 ELSE MinOf(at)

\* str::find("\n\n"): the byte offset of the match in the str, -1 when none.
FindBlankLine(str) ==
    IF BlankLineAt(str) = 0 THEN -1 ELSE Utf8Len(str, BlankLineAt(str) - 1)

\* char::is_whitespace
IsWhitespace(c) ==
    \/ c \in {9, 10, 11, 12, 13, 32, 133, 160, 5760, 8232, 8233, 8239, 8287, 12288}
    \/ (c >= 8192 /\ c <= 8202)

RECURSIVE TrimStart(_)
TrimStart(str) ==
    IF str # <<>> /\ IsWhitespace(str[1]) THEN TrimStart(Tail(str)) ELSE str

RECURSIVE TrimEnd(_)
TrimEnd(str) ==
    IF str # <<>> /\ IsWhitespace(str[Len(str)])
    THEN TrimEnd(Take(str, Len(str) - 1)) ELSE str

\* str::trim
Trim(str) == TrimEnd(TrimStart(str))

\* str::lines: split after each '\n'; the terminator, and a '\r' before it,
\* are not part of the line; no empty line after a final terminator.
RECURSIVE Lines(_)
Lines(str) ==
    IF str = <<>> THEN <<>>
    ELSE
      LET pos == NewlinePos(str) IN
      IF pos = 0 THEN <<str>>
      ELSE
        LET raw == Take(str, pos - 1)
            line == IF raw # <<>> /\ raw[Len(raw)] = 13
                    THEN Take(raw, Len(raw) - 1) ELSE raw
        IN  <<line>> \o Lines(Drop(str, pos))

DataPrefix == <<100, 97, 116, 97, 58, 32>>
DoneMarker == <<100, 97, 116, 97, 58, 32, 91, 68, 79, 78, 69, 93>>

StartsWith(str, prefix) ==
    Len(str) >= Len(prefix) /\ Take(str, Len(prefix)) = prefix

\* A line handler that keeps the first usage it saw.
OpenAIProcessLineKeepsFirst(acc, rawline) ==
    LET line == Trim(rawline) IN
    IF line = <<>> \/ line[1] = 58 THEN acc
    ELSE IF line = DoneMarker THEN acc
    ELSE IF StartsWith(line, DataPrefix) THEN
        LET resp == OpenAIFromStr(Drop(line, Len(DataPrefix))) IN
        [token_usage |->
            IF resp.ok /\ IsSome(resp.usage) /\ ~IsSome(acc.token_usage.prompt_tokens)
            THEN [prompt_tokens |-> Some(resp.usage[1][1]),
                  completion_tokens |-> Some(resp.usage[1][2])]
            ELSE acc.token_usage,
         decodes |-> acc.decodes + 1]
    ELSE acc

\* One line of an event block: the body of the for loop of process_events.
\* acc is [token_usage, decodes].
OpenAIProcessLine(acc, rawline) ==
    LET line == Trim(rawline) IN
    IF line = <<>> \/ line[1] = 58 THEN acc
    ELSE IF line = DoneMarker THEN acc
    ELSE IF StartsWith(line, DataPrefix) THEN
        LET resp == OpenAIFromStr(Drop(line, Len(DataPrefix))) IN
        [token_usage |->
            IF resp.ok /\ IsSome(resp.usage)
            THEN [prompt_tokens |-> Some(resp.usage[1][1]),
                  completion_tokens |-> Some(resp.usage[1][2])]
            ELSE acc.token_usage,
         decodes |-> acc.decodes + 1]
    ELSE acc

RECURSIVE OpenAIProcessBlock(_, _, _)
OpenAIProcessBlock(acc, lines, i) ==
    IF i > Len(lines) THEN acc
    ELSE OpenAIProcessBlock(OpenAIProcessLine(acc, lines[i]), lines, i + 1)

\* buffer_str.find("\n\n") of process_events.
OpenAIDelimiterPos(buffer) == FindBlankLine(FromUtf8Lossy(buffer))

\* OpenAIParser::process_events.  BytesMut::split_to(at) panics when at
\* exceeds the length of the buffer.
RECURSIVE OpenAIProcessEvents(_)
OpenAIProcessEvents(p) ==
    LET pos == OpenAIDelimiterPos(p.buffer) IN
    IF pos < 0 THEN p
    ELSE IF pos + 2 > Len(p.buffer)
        THEN [p EXCEPT !.panicked = TRUE, !.cuts = Append(@, pos + 2)]
    ELSE
      LET event_block == Take(p.buffer, pos + 2)
          event_str == FromUtf8Lossy(event_block)
          acc == OpenAIProcessBlock(
                     [token_usage |-> p.token_usage, decodes |-> p.decodes],
                     Lines(event_str), 1)
      IN  OpenAIProcessEvents(
              [p EXCEPT !.buffer = Drop(p.buffer, pos + 2),
                        !.cuts = Append(@, pos + 2),
                        !.token_usage = acc.token_usage,
                        !.decodes = acc.decodes])

\* OpenAIParser::feed_chunk
OpenAIFeedChunk(p, chunk) ==
    OpenAIProcessEvents([p EXCEPT !.buffer = @ \o chunk])

\* OpenAIParser::finalize
OpenAIFinalize(p) == OpenAIProcessEvents(p)

\* PassthroughParser::feed_chunk and ::finalize
PassthroughFeedChunk(p, chunk) == p
\* A passthrough parser that reports zero counts.
PassthroughFinalizeZero(p) ==
    [p EXCEPT !.token_usage = [prompt_tokens |-> Some(0), completion_tokens |-> Some(0)]]
PassthroughFinalize(p) == [p EXCEPT !.token_usage = TokenUsageDefault]

\* BackendStreamParser::feed_chunk through the trait object.
FeedChunk(p, chunk) ==
    CASE p.kind = "Ollama" -> OllamaFeedChunk(p, chunk)
      [] p.kind = "OpenAI" -> OpenAIFeedChunk(p, chunk)
      [] OTHER -> PassthroughFeedChunk(p, chunk)

\* BackendStreamParser::finalize through the trait object.
Finalize(p) ==
    CASE p.kind = "Ollama" -> OllamaFinalize(p)
      [] p.kind = "OpenAI" -> OpenAIFinalize(p)
      [] OTHER -> PassthroughFinalize(p)

(***************************************************************************)
(* detect_backend_type (src/src/parsers/mod.rs): str::contains on the      *)
(* content-type, first match wins.                                         *)
(***************************************************************************)
Contains(str, pat) ==
    \E i \in 1..(Len(str) - Len(pat) + 1) : SubSeq(str, i, i + Len(pat) - 1) = pat

TypeNdjson == <<97, 112, 112, 108, 105, 99, 97, 116, 105, 111, 110, 47, 120, 45, 110, 100, 106, 115, 111, 110>>
TypeJson == <<97, 112, 112, 108, 105, 99, 97, 116, 105, 111, 110, 47, 106, 115, 111, 110>>
TypeEventStream == <<116, 101, 120, 116, 47, 101, 118, 101, 110, 116, 45, 115, 116, 114, 101, 97, 109>>

\* A classifier that looks for the event-stream type first.
detect_backend_type_sse_first(content_type) ==
    IF Contains(content_type, TypeEventStream) THEN "OpenAI"
    ELSE IF Contains(content_type, TypeNdjson) \/ Contains(content_type, TypeJson)
    THEN "Ollama"
    ELSE "Unknown"

detect_backend_type(content_type) ==
    IF Contains(content_type, TypeNdjson) \/ Contains(content_type, TypeJson)
    THEN "Ollama"
    ELSE IF Contains(content_type, TypeEventStream) THEN "OpenAI"
    ELSE "Unknown"

(***************************************************************************)
(* Inputs.  An upstream body is a sequence of frames, a data frame or a    *)
(* trailers frame, ended by end of stream or by a read error.              *)
(***************************************************************************)
MaxFrames == 3

DataFrame(bytes) == [data |-> TRUE, bytes |-> bytes]
TrailersFrame == [data |-> FALSE, bytes |-> <<>>]

\* Content-Type values of the upstream response ("" when the header is missing).
ContentTypes ==
    { TypeNdjson,
      TypeJson,
      <<116, 101, 120, 116, 47, 101, 118, 101, 110, 116, 45, 115, 116, 114, 101, 97, 109, 59, 32, 97, 112, 112, 108, 105, 99, 97, 116, 105, 111, 110, 47, 106, 115, 111, 110>>,
      TypeEventStream,
      <<84, 101, 120, 116, 47, 69, 118, 101, 110, 116, 45, 83, 116, 114, 101, 97, 109>>,
      <<116, 101, 120, 116, 47, 112, 108, 97, 105, 110>>,
      <<>> }

\* {"done":false}\n
OllamaDelta == <<123, 34, 100, 111, 110, 101, 34, 58, 102, 97, 108, 115, 101, 125, 10>>
\* {"done":true,"prompt_eval_count":3,"eval_count":5}\n
OllamaDoneBoth == <<123, 34, 100, 111, 110, 101, 34, 58, 116, 114, 117, 101, 44, 34, 112, 114, 111, 109, 112, 116, 95, 101, 118, 97, 108, 95, 99, 111, 117, 110, 116, 34, 58, 51, 44, 34, 101, 118, 97, 108, 95, 99, 111, 117, 110, 116, 34, 58, 53, 125, 10>>
\* {"done":true,"eval_   and   count":4}\n : one line over two frames
OllamaDoneHead == <<123, 34, 100, 111, 110, 101, 34, 58, 116, 114, 117, 101, 44, 34, 101, 118, 97, 108, 95>>
OllamaDoneTail == <<99, 111, 117, 110, 116, 34, 58, 52, 125, 10>>

\* data: {"usage":{"prompt_tokens":12,"completion_tokens":7}}\n\n
OpenAIUsageEvent == <<100, 97, 116, 97, 58, 32, 123, 34, 117, 115, 97, 103, 101, 34, 58, 123, 34, 112, 114, 111, 109, 112, 116, 95, 116, 111, 107, 101, 110, 115, 34, 58, 49, 50, 44, 34, 99, 111, 109, 112, 108, 101, 116, 105, 111, 110, 95, 116, 111, 107, 101, 110, 115, 34, 58, 55, 125, 125, 10, 10>>
\* data: {"choices":1}\n\n
OpenAIDeltaEvent == <<100, 97, 116, 97, 58, 32, 123, 34, 99, 104, 111, 105, 99, 101, 115, 34, 58, 49, 125, 10, 10>>
\* data: [DONE]\n\n
OpenAIDoneEvent == <<100, 97, 116, 97, 58, 32, 91, 68, 79, 78, 69, 93, 10, 10>>
\* the byte 0xFF, which is not UTF-8, then \n\n
OpenAIBadUtf8Event == <<255, 10, 10>>

FramesOf(kind) ==
    {TrailersFrame} \cup
    CASE kind = "Ollama" ->
           {DataFrame(b) : b \in {OllamaDelta, OllamaDoneBoth, OllamaDoneHead, OllamaDoneTail}}
      [] kind = "OpenAI" ->
           {DataFrame(b) : b \in {OpenAIUsageEvent, OpenAIDeltaEvent, OpenAIDoneEvent,
                                  OpenAIBadUtf8Event}}
      [] OTHER -> {DataFrame(<<104, 105>>), DataFrame(<<10>>)}

SeqsUpTo(S, n) == UNION {[1..k -> S] : k \in 0..n}

\* Option<RequestData>: the middleware's extraction, or nothing.
RequestDatas == {None, Some([model |-> "llama2", prompt |-> "why is the sky blue"])}

\* mpsc::channel(32)
ChannelCapacity == 32

(***************************************************************************)
(* State of one proxied request.                                           *)
(***************************************************************************)
VARIABLES
    pc,            \* where the request stands: "handler", the Tee's position, or a final state
    request_data,  \* Option<RequestData> of the request's extensions
    response,      \* what proxy_handler returned: "none", "bad_gateway" or "stream"
    content_type,  \* the upstream response's content-type
    backend_type,  \* detect_backend_type(content_type)
    upstream,      \* frames the upstream body has still to yield
    upstream_end,  \* how the body ends after them: "eof" or "error"
    frame,         \* the data frame of the current loop iteration
    parser,        \* the Tee's parser
    chan,          \* items pending in the bounded channel
    tx,            \* whether client_tx is still held by the Tee
    rx,            \* the response body's receiver: "open", "dropped" or "eof"
    token_usage,   \* what parser.finalize() returned
    sink,          \* the LLMMetrics records handed to the log
    exit,          \* how the read loop was left
    reads,         \* history: calls of upstream_body.frame() that returned
    fed,           \* history: chunks passed to feed_chunk
    handed,        \* history: items passed to client_tx.send
    enqueued,      \* history: items client_tx.send accepted
    received,      \* history: items the response body took from the channel
    finalized,     \* history: calls of parser.finalize()
    at_drop,       \* history: data frames read and fed when the receiver was dropped
    pieces,        \* parser harness: the records the byte stream is made of
    rest,          \* parser harness: the bytes of the stream not yet fed
    midline        \* parser harness: a chunk has ended inside a record

teeVars == <<request_data, response, content_type, backend_type, upstream,
             upstream_end, frame, chan, tx, rx, token_usage, sink, exit,
             reads, handed, enqueued, received, at_drop>>
harnessVars == <<pieces, rest, midline>>
vars == <<pc, parser, fed, finalized, teeVars, harnessVars>>

NoParser == ParserNew("none")

DataItem(bytes) == [ok |-> TRUE, bytes |-> bytes]
ErrorItem == [ok |-> FALSE, bytes |-> <<>>]

Init ==
    /\ pc = "handler"
    /\ request_data \in RequestDatas
    /\ response = "none"
    /\ content_type = <<>>
    /\ backend_type = "Unknown"
    /\ upstream = <<>>
    /\ upstream_end = "eof"
    /\ frame = <<>>
    /\ parser = NoParser
    /\ chan = <<>>
    /\ tx = FALSE
    /\ rx = "open"
    /\ token_usage = TokenUsageDefault
    /\ sink = <<>>
    /\ exit = "none"
    /\ reads = 0
    /\ fed = <<>>
    /\ handed = <<>>
    /\ enqueued = <<>>
    /\ received = <<>>
    /\ finalized = 0
    /\ at_drop = None
    /\ pieces = <<>>
    /\ rest = <<>>
    /\ midline = FALSE

\* A handler that answers 502 and starts a Tee all the same.
HandlerUpstreamFailsSpawns ==
    /\ pc = "handler"
    /\ pc' = "spawned"
    /\ response' = "bad_gateway"
    /\ tx' = TRUE
    /\ UNCHANGED <<request_data, content_type, backend_type, upstream, upstream_end,
                   frame, parser, chan, rx, token_usage, sink, exit, reads, fed,
                   handed, enqueued, received, finalized, harnessVars, at_drop>>

\* proxy_handler, client.request(..) fails: 502, nothing is spawned.
HandlerUpstreamFails ==
    /\ pc = "handler"
    /\ pc' = "rejected"
    /\ response' = "bad_gateway"
    /\ UNCHANGED <<request_data, content_type, backend_type, upstream, upstream_end,
                   frame, parser, chan, tx, rx, token_usage, sink, exit, reads, fed,
                   handed, enqueued, received, finalized, harnessVars, at_drop>>

\* proxy_handler, the upstream answers: classify, create the channel, spawn
\* the Tee and return the streaming response.
HandlerStreams ==
    /\ pc = "handler"
    /\ \E ct \in ContentTypes :
         /\ content_type' = ct
         /\ backend_type' = detect_backend_type(ct)
         /\ upstream' \in SeqsUpTo(FramesOf(detect_backend_type(ct)), MaxFrames)
    /\ upstream_end' \in {"eof", "error"}
    /\ tx' = TRUE
    /\ response' = "stream"
    /\ pc' = "spawned"
    /\ UNCHANGED <<request_data, frame, parser, chan, rx, token_usage, sink, exit,
                   reads, fed, handed, enqueued, received, finalized, harnessVars, at_drop>>

\* handle_stream_tee, creation of the parser.
TeeStart ==
    /\ pc = "spawned"
    /\ parser' = ParserNew(backend_type)
    /\ pc' = "read"
    /\ UNCHANGED <<fed, finalized, teeVars, harnessVars>>

\* Where the Tee goes when client_tx.send(Ok(data)) fails: `break`.
AfterFailedSendContinues == "read"
AfterFailedSend == "finalize"

\* Where the Tee goes on Some(Err(e)): the send of the error item, then `break`.
AfterReadErrorNoForward == "finalize"
AfterReadError == "send_error"

\* upstream_body.frame().await yields Some(Ok(frame)).
TeeReadFrame ==
    /\ pc = "read"
    /\ upstream # <<>>
    /\ reads' = reads + 1
    /\ upstream' = Tail(upstream)
    /\ IF Head(upstream).data
       THEN frame' = Head(upstream).bytes /\ pc' = "feed"
       ELSE frame' = frame /\ pc' = "read"       \* into_data() fails: next iteration
    /\ UNCHANGED <<request_data, response, content_type, backend_type, upstream_end,
                   parser, chan, tx, rx, token_usage, sink, exit, fed, handed,
                   enqueued, received, finalized, harnessVars, at_drop>>

\* A Tee that does not parse once the receiver is gone.
TeeFeedSkipsWhenClosed ==
    /\ pc = "feed"
    /\ parser' = IF rx = "open" THEN FeedChunk(parser, frame) ELSE parser
    /\ fed' = IF rx = "open" THEN Append(fed, frame) ELSE fed
    /\ IF parser'.panicked
       THEN pc' = "panicked" /\ tx' = FALSE
       ELSE pc' = "send" /\ tx' = tx
    /\ UNCHANGED <<request_data, response, content_type, backend_type, upstream,
                   upstream_end, frame, chan, rx, token_usage, sink, exit, reads,
                   handed, enqueued, received, finalized, harnessVars, at_drop>>

\* parser.feed_chunk(&data).await; a panic unwinds the task, dropping client_tx.
TeeFeed ==
    /\ pc = "feed"
    /\ parser' = FeedChunk(parser, frame)
    /\ fed' = Append(fed, frame)
    /\ IF parser'.panicked
       THEN pc' = "panicked" /\ tx' = FALSE
       ELSE pc' = "send" /\ tx' = tx
    /\ UNCHANGED <<request_data, response, content_type, backend_type, upstream,
                   upstream_end, frame, chan, rx, token_usage, sink, exit, reads,
                   handed, enqueued, received, finalized, harnessVars, at_drop>>

\* A Tee over an unbounded channel: the send never waits.
TeeSendNoWait ==
    /\ pc = "send"
    /\ handed' = Append(handed, DataItem(frame))
    /\ IF rx # "open"
       THEN /\ pc' = AfterFailedSend
            /\ exit' = "disconnect"
            /\ UNCHANGED <<chan, enqueued>>
       ELSE /\ pc' = "read"
            /\ exit' = exit
            /\ chan' = Append(chan, DataItem(frame))
            /\ enqueued' = Append(enqueued, DataItem(frame))
    /\ UNCHANGED <<request_data, response, content_type, backend_type, upstream,
                   upstream_end, frame, parser, tx, rx, token_usage, sink, reads,
                   fed, received, finalized, harnessVars, at_drop>>

\* A Tee that forwards every frame twice.
TeeSendTwice ==
    /\ pc = "send"
    /\ rx # "open" \/ Len(chan) + 1 < ChannelCapacity
    /\ handed' = handed \o <<DataItem(frame), DataItem(frame)>>
    /\ IF rx # "open"
       THEN /\ pc' = AfterFailedSend
            /\ exit' = "disconnect"
            /\ UNCHANGED <<chan, enqueued>>
       ELSE /\ pc' = "read"
            /\ exit' = exit
            /\ chan' = chan \o <<DataItem(frame), DataItem(frame)>>
            /\ enqueued' = enqueued \o <<DataItem(frame), DataItem(frame)>>
    /\ UNCHANGED <<request_data, response, content_type, backend_type, upstream,
                   upstream_end, frame, parser, tx, rx, token_usage, sink, reads,
                   fed, received, finalized, harnessVars, at_drop>>

\* client_tx.send(Ok(data)).await: fails when the receiver is gone, waits
\* while the channel is full.
TeeSend ==
    /\ pc = "send"
    /\ rx # "open" \/ Len(chan) < ChannelCapacity
    /\ handed' = Append(handed, DataItem(frame))
    /\ IF rx # "open"
       THEN /\ pc' = AfterFailedSend
            /\ exit' = "disconnect"
            /\ UNCHANGED <<chan, enqueued>>
       ELSE /\ pc' = "read"
            /\ exit' = exit
            /\ chan' = Append(chan, DataItem(frame))
            /\ enqueued' = Append(enqueued, DataItem(frame))
    /\ UNCHANGED <<request_data, response, content_type, backend_type, upstream,
                   upstream_end, frame, parser, tx, rx, token_usage, sink, reads,
                   fed, received, finalized, harnessVars, at_drop>>

\* frame().await yields None: the stream ended normally.
TeeEndOfStream ==
    /\ pc = "read"
    /\ upstream = <<>>
    /\ upstream_end = "eof"
    /\ reads' = reads + 1
    /\ exit' = "eof"
    /\ pc' = "finalize"
    /\ UNCHANGED <<request_data, response, content_type, backend_type, upstream,
                   upstream_end, frame, parser, chan, tx, rx, token_usage, sink,
                   fed, handed, enqueued, received, finalized, harnessVars, at_drop>>

\* frame().await yields Some(Err(e)).
TeeReadError ==
    /\ pc = "read"
    /\ upstream = <<>>
    /\ upstream_end = "error"
    /\ reads' = reads + 1
    /\ exit' = "error"
    /\ pc' = AfterReadError
    /\ UNCHANGED <<request_data, response, content_type, backend_type, upstream,
                   upstream_end, frame, parser, chan, tx, rx, token_usage, sink,
                   fed, handed, enqueued, received, finalized, harnessVars, at_drop>>

\* let _ = client_tx.send(Err(..)).await; break
TeeSendError ==
    /\ pc = "send_error"
    /\ rx # "open" \/ Len(chan) < ChannelCapacity
    /\ handed' = Append(handed, ErrorItem)
    /\ IF rx # "open"
       THEN UNCHANGED <<chan, enqueued>>
       ELSE /\ chan' = Append(chan, ErrorItem)
            /\ enqueued' = Append(enqueued, ErrorItem)
    /\ pc' = "finalize"
    /\ UNCHANGED <<request_data, response, content_type, backend_type, upstream,
                   upstream_end, frame, parser, tx, rx, token_usage, sink, exit,
                   reads, fed, received, finalized, harnessVars, at_drop>>

\* let token_usage = parser.finalize().await
TeeFinalize ==
    /\ pc = "finalize"
    /\ parser' = Finalize(parser)
    /\ finalized' = finalized + 1
    /\ IF parser'.panicked
       THEN pc' = "panicked" /\ tx' = FALSE /\ token_usage' = token_usage
       ELSE pc' = "emit" /\ tx' = tx /\ token_usage' = parser'.token_usage
    /\ UNCHANGED <<request_data, response, content_type, backend_type, upstream,
                   upstream_end, frame, chan, rx, sink, exit, reads, fed, handed,
                   enqueued, received, harnessVars, at_drop>>

\* The record of the `if let Some(req_data) = request_data` block.  latency_ms
\* and timestamp are clock readings and are left out.
LLMMetrics(req_data, usage) ==
    [model |-> req_data.model,
     prompt |-> req_data.prompt,
     prompt_tokens |-> usage.prompt_tokens,
     completion_tokens |-> usage.completion_tokens]

\* The metrics block, then the return of handle_stream_tee (client_tx dropped).
TeeEmit ==
    /\ pc = "emit"
    /\ sink' = IF IsSome(request_data)
               THEN Append(sink, LLMMetrics(request_data[1], token_usage))
               ELSE sink
    /\ tx' = FALSE
    /\ pc' = "done"
    /\ UNCHANGED <<request_data, response, content_type, backend_type, upstream,
                   upstream_end, frame, parser, chan, rx, token_usage, exit, reads,
                   fed, handed, enqueued, received, finalized, harnessVars, at_drop>>

\* The response body (ReceiverStream) takes the next item.
ClientReceive ==
    /\ response = "stream"
    /\ rx = "open"
    /\ chan # <<>>
    /\ received' = Append(received, Head(chan))
    /\ chan' = Tail(chan)
    /\ UNCHANGED <<pc, parser, fed, finalized, request_data, response, content_type,
                   backend_type, upstream, upstream_end, frame, tx, rx, token_usage,
                   sink, exit, reads, handed, enqueued, harnessVars, at_drop>>

\* The response body sees the channel closed and empty: end of the body.
ClientEndOfStream ==
    /\ response = "stream"
    /\ rx = "open"
    /\ chan = <<>>
    /\ ~tx
    /\ rx' = "eof"
    /\ UNCHANGED <<pc, parser, fed, finalized, request_data, response, content_type,
                   backend_type, upstream, upstream_end, frame, chan, tx, token_usage,
                   sink, exit, reads, handed, enqueued, received, harnessVars, at_drop>>

\* Data frames read from upstream so far.
FramesRead == Len(fed) + (IF pc = "feed" THEN 1 ELSE 0)

\* The client goes away: the response body, and with it the receiver and the
\* items still queued, is dropped.
ClientDisconnect ==
    /\ response = "stream"
    /\ rx = "open"
    /\ rx' = "dropped"
    /\ chan' = <<>>
    /\ at_drop' = Some(<<FramesRead, Len(fed)>>)
    /\ UNCHANGED <<pc, parser, fed, finalized, request_data, response, content_type,
                   backend_type, upstream, upstream_end, frame, tx, token_usage,
                   sink, exit, reads, handed, enqueued, received, harnessVars>>

Next ==
    \/ HandlerUpstreamFails
    \/ HandlerStreams
    \/ TeeStart
    \/ TeeReadFrame
    \/ TeeFeed
    \/ TeeSend
    \/ TeeEndOfStream
    \/ TeeReadError
    \/ TeeSendError
    \/ TeeFinalize
    \/ TeeEmit
    \/ ClientReceive
    \/ ClientEndOfStream
    \/ ClientDisconnect

Spec == Init /\ [][Next]_vars

\* The spawned task is scheduled fairly: tokio runs a task whose await can
\* complete, and the upstream body's next frame, end or error is there to be
\* read.  feed_chunk and finalize never wait: once called they return or
\* panic, which is the step that leaves "feed", respectively "finalize".
\* client_tx.send completes only while TeeSend is possible.
TeeFeedReturns == pc = "feed" /\ pc' \in {"send", "panicked"}
TeeFinalizeReturns == pc = "finalize" /\ pc' \in {"emit", "panicked"}

TeeFairness ==
    /\ WF_vars(TeeStart)
    /\ WF_vars(TeeReadFrame)
    /\ WF_pc(TeeFeedReturns)
    /\ WF_vars(TeeSend)
    /\ WF_vars(TeeEndOfStream)
    /\ WF_vars(TeeReadError)
    /\ WF_vars(TeeSendError)
    /\ WF_pc(TeeFinalizeReturns)
    /\ WF_vars(TeeEmit)

\* Spec with the Tee task scheduled fairly; nothing is assumed of the client.
FairSpec == Spec /\ TeeFairness

(***************************************************************************)
(* Long streams: an upstream body of more frames than the channel holds,   *)
(* so that the channel fills when the client reads slowly or not at all.   *)
(***************************************************************************)
LongFrames == 34

\* One content-type and one well-formed data frame for each backend type.
LongStreams ==
    { [content_type |-> TypeNdjson, bytes |-> OllamaDelta],
      [content_type |-> TypeEventStream, bytes |-> OpenAIDeltaEvent],
      [content_type |-> <<>>, bytes |-> <<104, 105>>] }

\* proxy_handler, the upstream answers with a long body.
HandlerStreamsLong ==
    /\ pc = "handler"
    /\ \E st \in LongStreams :
         /\ content_type' = st.content_type
         /\ backend_type' = detect_backend_type(st.content_type)
         /\ upstream' = [i \in 1..LongFrames |-> DataFrame(st.bytes)]
    /\ upstream_end' \in {"eof", "error"}
    /\ tx' = TRUE
    /\ response' = "stream"
    /\ pc' = "spawned"
    /\ UNCHANGED <<request_data, frame, parser, chan, rx, token_usage, sink, exit,
                   reads, fed, handed, enqueued, received, finalized, harnessVars, at_drop>>

SlowClientNext ==
    \/ HandlerStreamsLong
    \/ TeeStart
    \/ TeeReadFrame
    \/ TeeFeed
    \/ TeeSend
    \/ TeeEndOfStream
    \/ TeeReadError
    \/ TeeSendError
    \/ TeeFinalize
    \/ TeeEmit
    \/ ClientReceive
    \/ ClientEndOfStream
    \/ ClientDisconnect

SlowClientSpec == Init /\ [][SlowClientNext]_vars

\* The same with the Tee task scheduled fairly; nothing is assumed of the client.
SlowClientFairSpec == SlowClientSpec /\ TeeFairness

(***************************************************************************)
(* Parser harness: one parser fed a byte stream in chunks of any size,     *)
(* then finalized.  The stream is a concatenation of records; finalize may *)
(* come before all of it was fed, as it does when the Tee leaves its loop  *)
(* early.                                                                  *)
(***************************************************************************)
MaxPieces == 2

\* {"done":false,"eval_count":9}\n
OllamaDeltaCounts == <<123, 34, 100, 111, 110, 101, 34, 58, 102, 97, 108, 115, 101, 44, 34, 101, 118, 97, 108, 95, 99, 111, 117, 110, 116, 34, 58, 57, 125, 10>>
\* {"done":true,"eval_count":4}\n
OllamaDoneEval == <<123, 34, 100, 111, 110, 101, 34, 58, 116, 114, 117, 101, 44, 34, 101, 118, 97, 108, 95, 99, 111, 117, 110, 116, 34, 58, 52, 125, 10>>
\* {"done":true,"eval_count":7}   with no line terminator
OllamaDoneEvalOpen == <<123, 34, 100, 111, 110, 101, 34, 58, 116, 114, 117, 101, 44, 34, 101, 118, 97, 108, 95, 99, 111, 117, 110, 116, 34, 58, 55, 125>>
\* {"done":true,"prompt_eval_count":6}\n
OllamaDonePrompt == <<123, 34, 100, 111, 110, 101, 34, 58, 116, 114, 117, 101, 44, 34, 112, 114, 111, 109, 112, 116, 95, 101, 118, 97, 108, 95, 99, 111, 117, 110, 116, 34, 58, 54, 125, 10>>
\* the byte 0xFF, which is not UTF-8, then \n
OllamaBadLine == <<255, 10>>
\* an empty line
OllamaBlankLine == <<10>>
\* a line of one blank
OllamaSpaceLine == <<32, 10>>

\* data: {"usage":{"prompt_tokens":1,"completion_tokens":2}}\n\n
OpenAIUsageEvent2 == <<100, 97, 116, 97, 58, 32, 123, 34, 117, 115, 97, 103, 101, 34, 58, 123, 34, 112, 114, 111, 109, 112, 116, 95, 116, 111, 107, 101, 110, 115, 34, 58, 49, 44, 34, 99, 111, 109, 112, 108, 101, 116, 105, 111, 110, 95, 116, 111, 107, 101, 110, 115, 34, 58, 50, 125, 125, 10, 10>>
\* data: {"usage":{"prompt_tokens":3,"completion_tokens":4}}\n   one line break only
OpenAIUsageLine == <<100, 97, 116, 97, 58, 32, 123, 34, 117, 115, 97, 103, 101, 34, 58, 123, 34, 112, 114, 111, 109, 112, 116, 95, 116, 111, 107, 101, 110, 115, 34, 58, 51, 44, 34, 99, 111, 109, 112, 108, 101, 116, 105, 111, 110, 95, 116, 111, 107, 101, 110, 115, 34, 58, 52, 125, 125, 10>>
\* : ping\n\n
OpenAIComment == <<58, 32, 112, 105, 110, 103, 10, 10>>
\* data: {oops\n\n
OpenAIMalformed == <<100, 97, 116, 97, 58, 32, 123, 111, 111, 112, 115, 10, 10>>

\* data: \xFF\n\n   a data line whose payload is a byte that is not UTF-8
OpenAIBadUtf8Data == <<100, 97, 116, 97, 58, 32, 255, 10, 10>>
\* :\xFF\n\n   a comment line holding a byte that is not UTF-8
OpenAIBadUtf8Comment == <<58, 255, 10, 10>>
\* " data: [DONE] \n\n"   the sentinel with blanks around it
OpenAIDonePadded == <<32, 100, 97, 116, 97, 58, 32, 91, 68, 79, 78, 69, 93, 32, 10, 10>>
\* \n\n   an event block of one empty line
OpenAIBlankEvent == <<10, 10>>

\* A record of a stream: its bytes, and for the records that are well-formed
\* what they say (done, the counts, the usage pair).
Piece(bytes, done, prompt, eval, usage) ==
    [bytes |-> bytes, done |-> done, prompt |-> prompt, eval |-> eval, usage |-> usage]

PiecesOf(kind) ==
    CASE kind = "Ollama" ->
           { Piece(OllamaDelta, FALSE, None, None, None),
             Piece(OllamaDeltaCounts, FALSE, None, Some(9), None),
             Piece(OllamaDoneBoth, TRUE, Some(3), Some(5), None),
             Piece(OllamaDoneEval, TRUE, None, Some(4), None),
             Piece(OllamaDoneEvalOpen, TRUE, None, Some(7), None),
             Piece(OllamaDonePrompt, TRUE, Some(6), None, None),
             Piece(OllamaBadLine, FALSE, None, None, None),
             Piece(OllamaBlankLine, FALSE, None, None, None),
             Piece(OllamaSpaceLine, FALSE, None, None, None) }
      [] kind = "OpenAI" ->
           { Piece(OpenAIUsageEvent, FALSE, None, None, Some(<<12, 7>>)),
             Piece(OpenAIUsageEvent2, FALSE, None, None, Some(<<1, 2>>)),
             Piece(OpenAIUsageLine, FALSE, None, None, Some(<<3, 4>>)),
             Piece(OpenAIDeltaEvent, FALSE, None, None, None),
             Piece(OpenAIDoneEvent, FALSE, None, None, None),
             Piece(OpenAIComment, FALSE, None, None, None),
             Piece(OpenAIMalformed, FALSE, None, None, None),
             Piece(OpenAIBadUtf8Event, FALSE, None, None, None),
             Piece(OpenAIBadUtf8Data, FALSE, None, None, None),
             Piece(OpenAIBadUtf8Comment, FALSE, None, None, None),
             Piece(OpenAIDonePadded, FALSE, None, None, None),
             Piece(OpenAIBlankEvent, FALSE, None, None, None) }
      [] OTHER ->
           { Piece(<<104, 105>>, FALSE, None, None, None),
             Piece(OllamaDoneBoth, FALSE, None, None, None) }

RECURSIVE StreamOf(_)
StreamOf(ps) == IF ps = <<>> THEN <<>> ELSE Head(ps).bytes \o StreamOf(Tail(ps))

\* The bytes fed so far.
FedBytes == Take(StreamOf(pieces), Len(StreamOf(pieces)) - Len(rest))

ParserInit ==
    /\ pc = "parse"
    /\ backend_type \in {"Ollama", "OpenAI", "Unknown"}
    /\ parser = ParserNew(backend_type)
    /\ pieces \in SeqsUpTo(PiecesOf(backend_type), MaxPieces)
    /\ rest = StreamOf(pieces)
    /\ midline = FALSE
    /\ request_data = None
    /\ response = "none"
    /\ content_type = <<>>
    /\ upstream = <<>>
    /\ upstream_end = "eof"
    /\ frame = <<>>
    /\ chan = <<>>
    /\ tx = FALSE
    /\ rx = "open"
    /\ token_usage = TokenUsageDefault
    /\ sink = <<>>
    /\ exit = "none"
    /\ reads = 0
    /\ fed = <<>>
    /\ handed = <<>>
    /\ enqueued = <<>>
    /\ received = <<>>
    /\ finalized = 0
    /\ at_drop = None

\* parser.feed_chunk(&chunk) with the next n bytes of the stream.
ParserFeed ==
    /\ pc = "parse"
    /\ \E n \in 0..Len(rest) :
         /\ parser' = FeedChunk(parser, Take(rest, n))
         /\ rest' = Drop(rest, n)
         /\ midline' = (midline \/ (n < Len(rest) /\ parser'.buffer # <<>>))
    /\ pc' = IF parser'.panicked THEN "panicked" ELSE "parse"
    /\ UNCHANGED <<fed, finalized, teeVars, pieces>>

\* parser.finalize()
ParserFinalize ==
    /\ pc = "parse"
    /\ parser' = Finalize(parser)
    /\ finalized' = finalized + 1
    /\ IF parser'.panicked
       THEN pc' = "panicked" /\ token_usage' = token_usage
       ELSE pc' = "parsed" /\ token_usage' = parser'.token_usage
    /\ UNCHANGED <<request_data, response, content_type, backend_type, upstream,
                   upstream_end, frame, chan, tx, rx, sink, exit, reads, fed, handed,
                   enqueued, received, harnessVars, at_drop>>

ParserNext == ParserFeed \/ ParserFinalize

ParserSpec == ParserInit /\ [][ParserNext]_vars

(***************************************************************************)
(* Properties of the Tee (specification Spec).                             *)
(***************************************************************************)
RECURSIVE Flatten(_)
Flatten(chunks) == IF chunks = <<>> THEN <<>> ELSE Head(chunks) \o Flatten(Tail(chunks))

RECURSIVE BytesOfItems(_)
BytesOfItems(items) ==
    IF items = <<>> THEN <<>>
    ELSE (IF Head(items).ok THEN Head(items).bytes ELSE <<>>) \o BytesOfItems(Tail(items))

NumErrors(items) == Cardinality({i \in 1..Len(items) : ~items[i].ok})

RECURSIVE FeedAll(_, _)
FeedAll(p, chunks) ==
    IF chunks = <<>> \/ p.panicked THEN p
    ELSE FeedAll(FeedChunk(p, Head(chunks)), Tail(chunks))

\* What a fresh parser of the kind returns after being fed the chunks in order.
UsageOf(kind, chunks) == Finalize(FeedAll(ParserNew(kind), chunks)).token_usage

LoopExited == pc \in {"finalize", "emit", "done"}

\* C1: once the Tee has left its read loop, by end of stream, by a failed send
\* (client disconnect) or by an upstream read error, the bytes passed to
\* client_tx.send, in order, are the bytes passed to feed_chunk, in order.
C1_ByteFidelity ==
    LoopExited => BytesOfItems(handed) = Flatten(fed)

\* The Tee returned after a client disconnect: two frames were fed and handed
\* to the channel, the channel took the first only.
C1_Witness ==
    /\ pc = "done"
    /\ exit = "disconnect"
    /\ Len(fed) = 2
    /\ Len(enqueued) = 1
    /\ Flatten(fed) # <<>>
    /\ BytesOfItems(handed) = Flatten(fed)

\* C2: every execution of the Tee, once over, has called finalize exactly once,
\* and finalize is called only after the read loop was left.
C2_FinalizeExactlyOnce ==
    /\ finalized <= 1
    /\ (finalized = 1 => pc \in {"emit", "done"})
    /\ (pc \in {"done", "panicked"} => finalized = 1)

\* The part of C2 that holds: on the three exits of the loop finalize is
\* called once, after the loop, and no chunk is fed afterwards.
FinalizeOnceOnLoopExit ==
    /\ [](finalized <= 1)
    /\ [](finalized = 1 => pc \in {"emit", "done"})
    /\ [](pc = "done" => finalized = 1 /\ exit \in {"eof", "disconnect", "error"})
    /\ [][finalized = 1 => fed' = fed /\ parser' = parser]_vars

\* C3: once a send has failed (the receiver is gone) the Tee asks upstream for
\* no further frame and feeds nothing more; it goes on to finalize, and what
\* finalize returns is the usage of the frames fed until then.
C3_DisconnectStopsAndFinalizes ==
    /\ [](exit = "disconnect" => LoopExited)
    /\ []((exit = "disconnect" /\ pc \in {"emit", "done"}) =>
            /\ finalized = 1
            /\ token_usage = UsageOf(backend_type, fed))
    /\ [][exit = "disconnect" =>
            reads' = reads /\ upstream' = upstream /\ fed' = fed]_vars

\* The Tee returned after a disconnect with frames left unread upstream and a
\* usage taken from the frames fed before.
C3_Witness ==
    /\ pc = "done"
    /\ exit = "disconnect"
    /\ upstream # <<>>
    /\ finalized = 1
    /\ IsSome(token_usage.completion_tokens)

\* C4: on an upstream read error the Tee passes one error item to the channel
\* (whether or not the send succeeds), nothing is passed or enqueued after it,
\* no further frame is read, the parser is finalized with what was fed before
\* the error, and, RequestData being present, one metrics record with that
\* usage is emitted.
C4_ReadError ==
    /\ [](exit # "error" => NumErrors(handed) = 0)
    /\ []((exit = "error" /\ pc # "send_error") =>
            /\ LoopExited
            /\ NumErrors(handed) = 1
            /\ ~handed[Len(handed)].ok
            /\ (NumErrors(enqueued) = 1 => ~enqueued[Len(enqueued)].ok))
    /\ []((exit = "error" /\ pc \in {"emit", "done"}) =>
            /\ finalized = 1
            /\ token_usage = UsageOf(backend_type, fed))
    /\ []((exit = "error" /\ pc = "done" /\ IsSome(request_data)) =>
            sink = <<LLMMetrics(request_data[1], UsageOf(backend_type, fed))>>)
    /\ [][exit = "error" =>
            /\ reads' = reads /\ upstream' = upstream /\ fed' = fed
            /\ (pc # "send_error" => handed' = handed /\ enqueued' = enqueued)]_vars

\* The Tee returned after a read error that followed a usage-bearing frame: the
\* error item is the last thing enqueued and the record carries the usage.
C4_Witness ==
    /\ pc = "done"
    /\ exit = "error"
    /\ Len(fed) >= 1
    /\ enqueued # <<>>
    /\ ~enqueued[Len(enqueued)].ok
    /\ Len(sink) = 1
    /\ IsSome(sink[1].completion_tokens)

\* C5: a Tee started with RequestData present has, once over, delivered exactly
\* one record, built after finalize from the RequestData and the finalized
\* usage; never one while the stream is read, never a second.
C5_ExactlyOneRecord ==
    /\ Len(sink) <= 1
    /\ (sink # <<>> =>
          /\ pc = "done"
          /\ finalized = 1
          /\ IsSome(request_data)
          /\ sink[1] = LLMMetrics(request_data[1], token_usage))
    /\ ((pc \in {"done", "panicked"} /\ IsSome(request_data)) => Len(sink) = 1)

\* The part of C5 that holds: a Tee that returned delivered exactly one record.
OneRecordOnReturn ==
    /\ Len(sink) <= 1
    /\ (sink # <<>> =>
          /\ pc = "done"
          /\ finalized = 1
          /\ IsSome(request_data)
          /\ sink[1] = LLMMetrics(request_data[1], token_usage))
    /\ ((pc = "done" /\ IsSome(request_data)) => Len(sink) = 1)

(***************************************************************************)
(* Properties of the parsers (specification ParserSpec).                   *)
(***************************************************************************)
LastPiece == pieces[Len(pieces)]

EndsWithNewline(bytes) == bytes # <<>> /\ bytes[Len(bytes)] = 10
EndsWithBlankLine(bytes) ==
    Len(bytes) >= 2 /\ bytes[Len(bytes)] = 10 /\ bytes[Len(bytes) - 1] = 10

\* Every record but the last ends its line: each record is a line of its own.
OneLineEach == \A i \in 1..(Len(pieces) - 1) : EndsWithNewline(pieces[i].bytes)

\* The stream was fed whole to an Ollama parser, and its last line says
\* done = true with eval_count and without prompt_eval_count.
TerminalLineEvalOnly ==
    /\ pc = "parsed"
    /\ backend_type = "Ollama"
    /\ rest = <<>>
    /\ pieces # <<>>
    /\ OneLineEach
    /\ LastPiece.done
    /\ IsSome(LastPiece.eval)
    /\ ~IsSome(LastPiece.prompt)

\* The prompt_eval_count of the last done = true line that had one.
LastPromptCount ==
    LET at == {i \in 1..Len(pieces) : pieces[i].done /\ IsSome(pieces[i].prompt)} IN
    IF at = {} THEN None ELSE pieces[CHOOSE i \in at : \A j \in at : j <= i].prompt

\* C6 as claimed: such a stream finalizes to completion_tokens = eval_count and
\* prompt_tokens absent, whatever lines came before.
C6_PromptAbsent ==
    TerminalLineEvalOnly =>
        token_usage = [prompt_tokens |-> None, completion_tokens |-> LastPiece.eval]

\* C6 amended: completion_tokens = eval_count, and prompt_tokens is the
\* prompt_eval_count of the last earlier done = true line that carried one,
\* absent when there is none.
C6_PromptFromLastDoneLine ==
    TerminalLineEvalOnly =>
        token_usage = [prompt_tokens |-> LastPromptCount,
                       completion_tokens |-> LastPiece.eval]

\* A stream fed in chunks that split a line, ending with the eval-only done
\* line after a line without done: prompt_tokens is absent.
C6_Witness ==
    /\ TerminalLineEvalOnly
    /\ midline
    /\ Len(pieces) = 2
    /\ token_usage = [prompt_tokens |-> None, completion_tokens |-> Some(4)]

\* What a fresh parser returns for the bytes fed as one chunk.
OneChunk(kind, bytes) == Finalize(FeedChunk(ParserNew(kind), bytes)).token_usage

\* C7: whatever the chunks an Ollama stream was fed in, finalize returns what
\* it returns for the same bytes fed as one chunk.
C7_OllamaChunkingInvariance ==
    (pc = "parsed" /\ backend_type = "Ollama") =>
        token_usage = OneChunk("Ollama", FedBytes)

\* A two-line stream was fed in chunks that split a line, and counts came out.
C7_Witness ==
    /\ pc = "parsed"
    /\ backend_type = "Ollama"
    /\ midline
    /\ rest = <<>>
    /\ Len(pieces) = 2
    /\ IsSome(token_usage.prompt_tokens)
    /\ IsSome(token_usage.completion_tokens)

\* The stream is made of SSE events in UTF-8 (here: ASCII; the records that
\* are not UTF-8 hold the byte FF).
Utf8Events ==
    \A i \in 1..Len(pieces) :
        \A k \in 1..Len(pieces[i].bytes) : pieces[i].bytes[k] < 128

\* The usage of the last record that carries one, as a TokenUsage.
LastUsage ==
    LET at == {i \in 1..Len(pieces) : IsSome(pieces[i].usage)} IN
    IF at = {} THEN TokenUsageDefault
    ELSE LET u == pieces[CHOOSE i \in at : \A j \in at : j <= i].usage[1]
         IN  [prompt_tokens |-> Some(u[1]), completion_tokens |-> Some(u[2])]

\* The usage pairs the stream's records carry.
UsagesOfStream ==
    {[prompt_tokens |-> Some(pieces[i].usage[1][1]),
      completion_tokens |-> Some(pieces[i].usage[1][2])] :
        i \in {j \in 1..Len(pieces) : IsSome(pieces[j].usage)}}

\* C8: in an OpenAI stream of UTF-8 events the accumulator is at every moment
\* untouched or exactly the usage of one event (both fields set together), and
\* once the stream, ending with a complete event, is fed whole, finalize
\* returns the usage of the last usage-bearing event.
C8_OpenAIReplace ==
    (backend_type = "OpenAI" /\ Utf8Events) =>
        /\ parser.token_usage \in UsagesOfStream \cup {TokenUsageDefault}
        /\ (/\ pc = "parsed"
            /\ rest = <<>>
            /\ pieces # <<>>
            /\ EndsWithBlankLine(LastPiece.bytes))
           => token_usage = LastUsage

\* Two usage events with different values, fed in chunks that split an event:
\* the second one's values are returned.
C8_Witness ==
    /\ pc = "parsed"
    /\ backend_type = "OpenAI"
    /\ rest = <<>>
    /\ midline
    /\ Len(pieces) = 2
    /\ IsSome(pieces[1].usage)
    /\ IsSome(pieces[2].usage)
    /\ pieces[1].usage # pieces[2].usage
    /\ EndsWithBlankLine(LastPiece.bytes)
    /\ token_usage = LastUsage

Present(usage) ==
    <<IsSome(usage.prompt_tokens), IsSome(usage.completion_tokens)>>

\* C9: both fields of the accumulator start absent, and no feed_chunk and no
\* finalize makes a present field absent, in the accumulator or in the usage
\* finalize returns.
C9_PresentStaysPresent ==
    /\ parser.token_usage = TokenUsageDefault
    /\ [][/\ IsSome(parser.token_usage.prompt_tokens)
             => IsSome(parser'.token_usage.prompt_tokens)
          /\ IsSome(parser.token_usage.completion_tokens)
             => IsSome(parser'.token_usage.completion_tokens)
          /\ pc' = "parsed" => Present(token_usage') = Present(parser'.token_usage)
         ]_vars

\* After a done line with both counts, a done line with eval_count only was
\* processed: prompt_tokens is still there.
C9_Witness ==
    /\ pc = "parsed"
    /\ backend_type = "Ollama"
    /\ rest = <<>>
    /\ Len(pieces) = 2
    /\ pieces[1].bytes = OllamaDoneBoth
    /\ pieces[2].bytes = OllamaDoneEval
    /\ token_usage = [prompt_tokens |-> Some(3), completion_tokens |-> Some(4)]

\* The bytes left once every complete record is taken from the front: a line
\* up to its "\n" (Ollama), an event block up to its "\n\n" (OpenAI).
RECURSIVE Unconsumed(_, _)
Unconsumed(kind, bytes) ==
    LET n == IF kind = "Ollama" THEN NewlinePos(bytes)
             ELSE IF BlankLineAt(bytes) = 0 THEN 0 ELSE BlankLineAt(bytes) + 1
    IN  IF n = 0 THEN bytes ELSE Unconsumed(kind, Drop(bytes, n))

\* The lengths of the complete records of bytes, in order.
RECURSIVE RecordLengths(_, _)
RecordLengths(kind, bytes) ==
    LET n == IF kind = "Ollama" THEN NewlinePos(bytes)
             ELSE IF BlankLineAt(bytes) = 0 THEN 0 ELSE BlankLineAt(bytes) + 1
    IN  IF n = 0 THEN <<>> ELSE <<n>> \o RecordLengths(kind, Drop(bytes, n))

BufferDisciplineOf(kinds) ==
    (backend_type \in kinds /\ pc \in {"parse", "parsed", "panicked"}) =>
        /\ ~parser.panicked
        /\ parser.buffer = Unconsumed(backend_type, FedBytes)
        /\ parser.cuts = RecordLengths(backend_type, FedBytes)

\* C10: for both parsers and any bytes, no split_to exceeds the buffer, every
\* removal is exactly one complete record, and after each feed_chunk the buffer
\* holds the bytes after the last complete record.
C10_BufferDiscipline == BufferDisciplineOf({"Ollama", "OpenAI"})

\* The part of C10 that holds: the Ollama parser, on any bytes.
OllamaBufferDiscipline == BufferDisciplineOf({"Ollama"})

\* The part of C10 that holds: the OpenAI parser on UTF-8 streams.
OpenAIBufferDisciplineUtf8 == Utf8Events => BufferDisciplineOf({"OpenAI"})

(***************************************************************************)
(* Order, backpressure and progress of the Tee.                            *)
(***************************************************************************)
IsPrefix(s, t) == Len(s) <= Len(t) /\ \A i \in 1..Len(s) : s[i] = t[i]

\* The chunks of the data items of a sequence of channel items, in order.
Chunks(items) ==
    LET oks == SelectSeq(items, LAMBDA it : it.ok)
    IN  [i \in 1..Len(oks) |-> oks[i].bytes]

\* The chunks of the data frames of a sequence of upstream frames, in order.
DataFrames(frames) ==
    LET ds == SelectSeq(frames, LAMBDA f : f.data)
    IN  [i \in 1..Len(ds) |-> ds[i].bytes]

\* The data frames of the whole upstream body in arrival order: those fed, the
\* one read and about to be fed, those the body has still to yield.
Arrival == fed \o (IF pc = "feed" THEN <<frame>> ELSE <<>>) \o DataFrames(upstream)

\* C11: at every state the data frames enqueued are, frame for frame, a prefix
\* of the frames fed, what the response body has taken is a prefix of what was
\* enqueued (the rest is pending in the channel, in order), and the frames fed
\* are the upstream's data frames in arrival order: no step changes the
\* sequence "fed, being fed, still to come".
C11_OrderAndContainment ==
    /\ [](/\ IsPrefix(Chunks(enqueued), fed)
          /\ IsPrefix(received, enqueued)
          /\ IsPrefix(Chunks(received), fed)
          /\ (rx = "open" => enqueued = received \o chan))
    /\ [][pc # "handler" => Arrival' = Arrival]_vars

\* Three different frames were fed; two are enqueued, the client has taken one.
C11_Witness ==
    /\ Len(fed) = 3
    /\ fed[1] # fed[2]
    /\ fed[2] # fed[3]
    /\ Len(enqueued) = 2
    /\ Len(received) = 1
    /\ Len(chan) = 1
    /\ received[1].bytes = fed[1]

\* C12: whenever the Tee is about to ask upstream for a frame, every data
\* frame read before has been enqueued; the channel never holds more than
\* ChannelCapacity items; and the frames read but not yet taken by the
\* response body number at most ChannelCapacity + 1.
C12_Backpressure ==
    /\ (pc = "read" => Chunks(enqueued) = fed /\ enqueued = handed)
    /\ Len(chan) <= ChannelCapacity
    /\ FramesRead - Len(Chunks(received)) <= ChannelCapacity + 1

\* The client has taken nothing, the channel is full, and the Tee waits in
\* send with one more frame in hand while upstream has frames left.
C12_Witness ==
    /\ pc = "send"
    /\ rx = "open"
    /\ received = <<>>
    /\ Len(chan) = ChannelCapacity
    /\ FramesRead = ChannelCapacity + 1
    /\ upstream # <<>>

\* C13: with the Tee task scheduled fairly and a finite upstream body, and
\* whatever the client does, a Tee that was spawned eventually finalizes and
\* reaches the emission step, having been fed every frame of the body unless
\* the client went away first.
C13_TeeEventuallyFinalizes ==
    (pc = "spawned") ~>
        (/\ pc \in {"emit", "done"}
         /\ finalized = 1
         /\ (exit = "disconnect" \/ fed = Arrival))

\* The Tee waits in send on a full channel that the client neither reads nor
\* drops: no step of the Tee is possible.
TeeBlockedOnSend ==
    /\ pc = "send"
    /\ rx = "open"
    /\ Len(chan) = ChannelCapacity

\* The client-writing path keeps taking items for as long as it is there.
ClientKeepsReading == WF_vars(ClientReceive)

\* The progress that holds: while the client keeps taking what is queued (or
\* goes away) and the parser does not panic, the Tee finalizes.
TeeFinalizesUnlessBlockedOrPanicked ==
    ClientKeepsReading =>
        ((pc = "spawned") ~>
            (\/ pc = "panicked"
             \/ /\ pc \in {"emit", "done"}
                /\ finalized = 1
                /\ (exit = "disconnect" \/ fed = Arrival)))

(***************************************************************************)
(* Malformed and skipped units.                                            *)
(***************************************************************************)
\* The records of the model that are malformed: a line, or the data line of
\* an event block, that is not JSON or not even UTF-8.
MalformedUnits ==
    {OllamaBadLine, OpenAIMalformed, OpenAIBadUtf8Event, OpenAIBadUtf8Data}

\* The stream's records without the malformed ones.
WellFormedPieces == SelectSeq(pieces, LAMBDA p : p.bytes \notin MalformedUnits)

\* Every record but the last ends with its delimiter: the records are the
\* lines (Ollama), the event blocks (OpenAI) of the stream.
OneUnitEach ==
    \A i \in 1..(Len(pieces) - 1) :
        IF backend_type = "OpenAI" THEN EndsWithBlankLine(pieces[i].bytes)
        ELSE EndsWithNewline(pieces[i].bytes)

MalformedDiscardedOf(kinds) ==
    (backend_type \in kinds /\ pc \in {"parse", "parsed", "panicked"} /\ OneUnitEach) =>
        /\ ~parser.panicked
        /\ (pc = "parse" /\ rest = <<>>) =>
              /\ parser.buffer = Unconsumed(backend_type, FedBytes)
              /\ parser.token_usage =
                   FeedChunk(ParserNew(backend_type), StreamOf(WellFormedPieces)).token_usage
        /\ (pc = "parsed" /\ rest = <<>>) =>
              token_usage = OneChunk(backend_type, StreamOf(WellFormedPieces))

\* C14: whatever bytes a malformed line or event block holds, feed_chunk
\* returns normally, the unit is taken out of the buffer, and the usage is
\* what the stream without the malformed units gives: the accumulator is not
\* touched by them and the well-formed units after them are applied.
C14_MalformedIsDiscarded == MalformedDiscardedOf({"Ollama", "OpenAI"})

\* The part of C14 that holds: Ollama lines of any bytes.
OllamaMalformedIsDiscarded == MalformedDiscardedOf({"Ollama"})

\* The part of C14 that holds: OpenAI event blocks in UTF-8.
OpenAIMalformedIsDiscardedUtf8 == Utf8Events => MalformedDiscardedOf({"OpenAI"})

\* A malformed unit was followed by a well-formed one whose counts came out.
MalformedThenWellFormed ==
    /\ pc = "parsed"
    /\ rest = <<>>
    /\ Len(pieces) = 2
    /\ pieces[1].bytes \in MalformedUnits
    /\ IsSome(token_usage.completion_tokens)

\* An event with a usage object that follows a block holding a byte that is
\* not UTF-8, fed together with it: feed_chunk returned, and the usage is lost.
UsageLostAfterBadUtf8 ==
    /\ pc = "parse"
    /\ backend_type = "OpenAI"
    /\ rest = <<>>
    /\ Len(pieces) = 2
    /\ pieces[1].bytes = OpenAIBadUtf8Event
    /\ pieces[2].bytes = OpenAIUsageEvent
    /\ ~parser.panicked
    /\ parser.buffer = <<>>
    /\ parser.token_usage = TokenUsageDefault

\* The event blocks of the model made of lines that are skipped: a comment,
\* the [DONE] sentinel, an empty line.
SkippedUnits ==
    {OpenAIComment, OpenAIDoneEvent, OpenAIDonePadded, OpenAIBlankEvent,
     OpenAIBadUtf8Comment}

\* The stream's records without those.
UnskippedPieces == SelectSeq(pieces, LAMBDA p : p.bytes \notin SkippedUnits)

\* The other records of the stream are UTF-8.
UnskippedAreUtf8 ==
    \A i \in 1..Len(pieces) :
        pieces[i].bytes \in SkippedUnits
        \/ \A k \in 1..Len(pieces[i].bytes) : pieces[i].bytes[k] < 128

\* C15: comment lines, empty lines and the [DONE] sentinel, wherever they are
\* in an OpenAI stream and however it is chunked, cause no failure, no call of
\* serde_json::from_str and no change of the accumulator: the parser ends
\* with the decode count and the usage of the stream without them.
C15_SkippedLinesInert ==
    (/\ backend_type = "OpenAI"
     /\ pc \in {"parse", "parsed", "panicked"}
     /\ OneUnitEach
     /\ UnskippedAreUtf8) =>
        /\ ~parser.panicked
        /\ rest = <<>> =>
              LET ref == Finalize(FeedChunk(ParserNew("OpenAI"), StreamOf(UnskippedPieces)))
              IN  /\ parser.decodes = ref.decodes
                  /\ parser.token_usage = ref.token_usage
                  /\ pc = "parsed" => token_usage = ref.token_usage

\* The part of C15 that holds: skipped lines in UTF-8.
SkippedLinesInertUtf8 == Utf8Events => C15_SkippedLinesInert

\* A usage event between a comment and the sentinel: one decode, its usage.
SkippedAroundUsage ==
    /\ pc = "parsed"
    /\ backend_type = "OpenAI"
    /\ rest = <<>>
    /\ midline
    /\ Len(pieces) = 2
    /\ pieces[1].bytes \in SkippedUnits
    /\ pieces[2].bytes = OpenAIUsageEvent
    /\ parser.decodes = 1
    /\ token_usage = [prompt_tokens |-> Some(12), completion_tokens |-> Some(7)]

(***************************************************************************)
(* Classification, passthrough, missing RequestData, failed upstream.      *)
(***************************************************************************)
\* "text/event-stream; application/json", "Text/Event-Stream", "text/plain"
BothTypes == TypeEventStream \o <<59, 32>> \o TypeJson
OtherCase == <<84, 101, 120, 116, 47, 69, 118, 101, 110, 116, 45, 83, 116, 114, 101, 97, 109>>
TextPlain == <<116, 101, 120, 116, 47, 112, 108, 97, 105, 110>>

\* What each content-type of the model is to be classified as.
ExpectedBackendType ==
    CASE content_type \in {TypeNdjson, TypeJson, BothTypes} -> "Ollama"
      [] content_type = TypeEventStream -> "OpenAI"
      [] content_type \in {OtherCase, TextPlain, <<>>} -> "Unknown"

\* C16: once the upstream has answered, the backend type is Ollama for a
\* content-type holding application/x-ndjson or application/json (also next
\* to text/event-stream), OpenAI for text/event-stream, Unknown for another
\* spelling, another type or no header; and the Tee's parser is of that kind.
C16_Classification ==
    response = "stream" =>
        /\ content_type \in ContentTypes
        /\ backend_type = ExpectedBackendType
        /\ (pc \notin {"handler", "spawned"} => parser.kind = backend_type)

\* A response with both types in its content-type went to the Ollama parser,
\* which took counts from it.
C16_Witness ==
    /\ content_type = BothTypes
    /\ backend_type = "Ollama"
    /\ parser.kind = "Ollama"
    /\ pc = "done"
    /\ IsSome(token_usage.completion_tokens)

\* C17: the passthrough parser returns both fields absent, whatever chunks it
\* was fed, none included, and its accumulator is never anything else.
C17_PassthroughAbsent ==
    backend_type = "Unknown" =>
        /\ parser.token_usage = TokenUsageDefault
        /\ ~parser.panicked
        /\ pc = "parsed" => token_usage = TokenUsageDefault

\* The passthrough parser was fed two records, one a line that the Ollama
\* parser takes counts from, and returned both fields absent.
C17_Witness ==
    /\ backend_type = "Unknown"
    /\ pc = "parsed"
    /\ rest = <<>>
    /\ Len(pieces) = 2
    /\ \E i \in 1..Len(pieces) : pieces[i].bytes = OllamaDoneBoth
    /\ token_usage = TokenUsageDefault

\* finalize on a passthrough parser that was fed nothing.
PassthroughZeroChunks ==
    /\ backend_type = "Unknown"
    /\ pc = "parsed"
    /\ pieces = <<>>
    /\ token_usage = TokenUsageDefault

NoRecordWithoutRequestDataOnReturn ==
    ~IsSome(request_data) =>
        /\ sink = <<>>
        /\ finalized <= 1
        /\ (pc = "done" => finalized = 1)
        /\ (LoopExited => BytesOfItems(handed) = Flatten(fed))
        /\ (exit # "error" => NumErrors(handed) = 0)

\* A Tee without RequestData returned after a stream with counts that the
\* client received whole: nothing was delivered to the sink.
ReturnedWithoutRequestData ==
    /\ ~IsSome(request_data)
    /\ pc = "done"
    /\ exit = "eof"
    /\ finalized = 1
    /\ IsSome(token_usage.completion_tokens)
    /\ received = enqueued
    /\ Chunks(received) = fed
    /\ fed # <<>>
    /\ sink = <<>>

\* C19: when the upstream request fails the handler answers 502, and then and
\* ever after there is no channel sender, no Tee, no parser, no frame read,
\* nothing enqueued and no record: nothing happens for that request any more.
C19_UpstreamFailure ==
    /\ [](response = "bad_gateway" =>
            /\ pc = "rejected"
            /\ ~tx
            /\ chan = <<>>
            /\ parser = NoParser
            /\ reads = 0
            /\ fed = <<>>
            /\ handed = <<>>
            /\ finalized = 0
            /\ sink = <<>>)
    /\ [](pc = "rejected" => response = "bad_gateway")
    /\ [][response = "bad_gateway" => UNCHANGED vars]_vars

\* The upstream request of a request with RequestData failed.
C19_Witness ==
    /\ response = "bad_gateway"
    /\ pc = "rejected"
    /\ IsSome(request_data)
    /\ sink = <<>>

(***************************************************************************)
(* The last, unterminated event block of an OpenAI stream.                 *)
(***************************************************************************)
\* The bytes fed after the last complete event block.
Residual == Unconsumed("OpenAI", FedBytes)

\* The usage a residual data line carries: the line of a usage event without
\* its blank line, with one line break or with none.
ResidualUsage ==
    CASE Residual \in {Take(OpenAIUsageEvent, Len(OpenAIUsageEvent) - 1),
                       Take(OpenAIUsageEvent, Len(OpenAIUsageEvent) - 2)}
           -> [prompt_tokens |-> Some(12), completion_tokens |-> Some(7)]
      [] Residual \in {Take(OpenAIUsageEvent2, Len(OpenAIUsageEvent2) - 1),
                       Take(OpenAIUsageEvent2, Len(OpenAIUsageEvent2) - 2)}
           -> [prompt_tokens |-> Some(1), completion_tokens |-> Some(2)]
      [] Residual \in {OpenAIUsageLine, Take(OpenAIUsageLine, Len(OpenAIUsageLine) - 1)}
           -> [prompt_tokens |-> Some(3), completion_tokens |-> Some(4)]
      [] OTHER -> TokenUsageDefault

\* C20: when finalize is called on an OpenAI parser whose residual bytes are
\* a data line with a usage object, ended by one line break or by none, the
\* usage returned is that line's.
C20_FinalizeReadsResidualBlock ==
    (/\ backend_type = "OpenAI"
     /\ pc = "parsed"
     /\ Utf8Events
     /\ ResidualUsage # TokenUsageDefault) =>
        token_usage = ResidualUsage

\* What finalize does instead: after a feed_chunk that returned, it finds no
\* blank line in the buffer, leaves the buffer as it is and returns the
\* accumulator as it was.
OpenAIFinalizeChangesNothing ==
    [][(backend_type = "OpenAI" /\ pc = "parse" /\ pc' = "parsed") =>
          /\ parser'.buffer = parser.buffer
          /\ parser'.token_usage = parser.token_usage
          /\ parser'.decodes = parser.decodes
          /\ token_usage' = parser.token_usage]_vars

\* finalize was called with a usage line, ended by no line break, left in the
\* buffer, and returned both fields absent.
ResidualUsageIgnored ==
    /\ backend_type = "OpenAI"
    /\ pc = "parsed"
    /\ Residual = Take(OpenAIUsageEvent, Len(OpenAIUsageEvent) - 2)
    /\ parser.buffer = Residual
    /\ token_usage = TokenUsageDefault

(***************************************************************************)
(* Ollama: what finalize does with the bytes after the last line break.    *)
(***************************************************************************)
\* bytes without the JSON whitespace before and after.
TrimJsonWs(bytes) ==
    LET at == {i \in 1..Len(bytes) : ~IsJsonWs(bytes[i])} IN
    IF at = {} THEN <<>>
    ELSE SubSeq(bytes, MinOf(at), CHOOSE i \in at : \A j \in at : j <= i)

\* The records of the model that are a JSON object, as the stream states them.
OllamaObjects ==
    {q \in PiecesOf("Ollama") :
        q.bytes \notin {OllamaBadLine, OllamaBlankLine, OllamaSpaceLine}}

\* The records whose object is exactly the bytes r (blanks aside): none when r
\* is empty, blank, a part of an object or more than one object.
ObjectsSpelled(r) ==
    {q \in OllamaObjects : TrimJsonWs(q.bytes) = TrimJsonWs(r)}

\* The update rule of complete lines, read off the record: a done = true
\* object sets each count it carries and leaves the other one alone.
AfterObject(usage, q) ==
    IF q.done
    THEN [prompt_tokens |-> IF IsSome(q.prompt) THEN q.prompt ELSE usage.prompt_tokens,
          completion_tokens |-> IF IsSome(q.eval) THEN q.eval ELSE usage.completion_tokens]
    ELSE usage

\* What finalize is to return for an accumulator and residual bytes r.
AfterResidual(usage, r) ==
    IF ObjectsSpelled(r) = {} THEN usage
    ELSE AfterObject(usage, CHOOSE q \in ObjectsSpelled(r) : TRUE)

\* C21: finalize of an Ollama parser finds in the buffer the bytes after the
\* last line break, decodes them at most once (once when there are any), and
\* returns the accumulator of the last feed_chunk updated by the rule of
\* complete lines: set field by field when the bytes are a done = true object,
\* unchanged when they are empty, blank, not an object, or say done = false.
C21_OllamaFinalizeResidual ==
    [][(backend_type = "Ollama" /\ pc = "parse" /\ pc' = "parsed") =>
          /\ parser.buffer = Unconsumed("Ollama", FedBytes)
          /\ parser'.decodes - parser.decodes
                = (IF parser.buffer = <<>> THEN 0 ELSE 1)
          /\ token_usage' = AfterResidual(parser.token_usage, parser.buffer)
      ]_vars

\* After a done line with both counts the stream ends with a done object with
\* eval_count only and no line break: finalize took the completion count from
\* it and kept the prompt count.
C21_Witness ==
    /\ pc = "parsed"
    /\ backend_type = "Ollama"
    /\ rest = <<>>
    /\ Len(pieces) = 2
    /\ pieces[1].bytes = OllamaDoneBoth
    /\ pieces[2].bytes = OllamaDoneEvalOpen
    /\ parser.buffer = OllamaDoneEvalOpen
    /\ token_usage = [prompt_tokens |-> Some(3), completion_tokens |-> Some(7)]

\* Finalize came with a blank left in the buffer, after a done line.
ResidualBlank ==
    /\ pc = "parsed"
    /\ backend_type = "Ollama"
    /\ parser.buffer = <<32>>
    /\ token_usage = [prompt_tokens |-> Some(3), completion_tokens |-> Some(5)]

\* Finalize came with a whole done = false object carrying a count left in the
\* buffer: the count was not taken.
ResidualNotDone ==
    /\ pc = "parsed"
    /\ backend_type = "Ollama"
    /\ parser.buffer \o <<10>> = OllamaDeltaCounts
    /\ token_usage = TokenUsageDefault

\* Finalize came with a part of a done = true object left in the buffer.
ResidualUndecodable ==
    /\ pc = "parsed"
    /\ backend_type = "Ollama"
    /\ Len(pieces) = 2
    /\ pieces[2].bytes = OllamaDoneEval
    /\ parser.buffer # <<>>
    /\ Len(parser.buffer) < Len(OllamaDoneEval) - 1
    /\ IsSome(token_usage.prompt_tokens)
    /\ token_usage = parser.token_usage

(***************************************************************************)
(* Ollama: the merge rule over the lines of a stream.                      *)
(***************************************************************************)
\* The number of records of the stream that were decoded so far: the lines
\* fed up to their line break and, once finalize has run, the record whose
\* text was fed whole, with or without its line break.
LinesDone ==
    Cardinality(
      {i \in 1..Len(pieces) :
          LET upto == Len(StreamOf(Take(pieces, i))) IN
          IF pc = "parsed"
          THEN upto - (IF EndsWithNewline(pieces[i].bytes) THEN 1 ELSE 0)
                  <= Len(FedBytes)
          ELSE upto <= Len(FedBytes) /\ EndsWithNewline(pieces[i].bytes)})

\* The prompt_eval_count of the last of the first k records that says
\* done = true and carries one; absent when there is none.
PromptAfter(k) ==
    LET at == {i \in 1..k : pieces[i].done /\ IsSome(pieces[i].prompt)} IN
    IF at = {} THEN None ELSE pieces[CHOOSE i \in at : \A j \in at : j <= i].prompt

\* The same for eval_count.
EvalAfter(k) ==
    LET at == {i \in 1..k : pieces[i].done /\ IsSome(pieces[i].eval)} IN
    IF at = {} THEN None ELSE pieces[CHOOSE i \in at : \A j \in at : j <= i].eval

\* C22: in an Ollama stream of one record per line, at every moment each field
\* of the accumulator is the count of the last decoded done = true record that
\* carried it, absent when there was none: a done = false record changes
\* nothing even when it carries counts, a done = true record sets the counts
\* it carries and leaves the other; finalize returns that accumulator.
C22_OllamaMergeRule ==
    (backend_type = "Ollama" /\ OneLineEach /\ pc \in {"parse", "parsed"}) =>
        /\ parser.token_usage = [prompt_tokens |-> PromptAfter(LinesDone),
                                 completion_tokens |-> EvalAfter(LinesDone)]
        /\ pc = "parsed" => token_usage = parser.token_usage

\* Two done = true lines, the first with prompt_eval_count only, the second
\* with eval_count only, fed in chunks that split a line: each field holds
\* the count of the line that carried it.
C22_Witness ==
    /\ pc = "parsed"
    /\ backend_type = "Ollama"
    /\ rest = <<>>
    /\ midline
    /\ Len(pieces) = 2
    /\ pieces[1].bytes = OllamaDonePrompt
    /\ pieces[2].bytes = OllamaDoneEval
    /\ token_usage = [prompt_tokens |-> Some(6), completion_tokens |-> Some(4)]

\* A done = false line carrying eval_count came after a done = true line with
\* both counts: the accumulator kept the counts of the done line.
CountsOfNotDoneIgnored ==
    /\ pc = "parse"
    /\ backend_type = "Ollama"
    /\ rest = <<>>
    /\ Len(pieces) = 2
    /\ pieces[1].bytes = OllamaDoneBoth
    /\ pieces[2].bytes = OllamaDeltaCounts
    /\ parser.token_usage = [prompt_tokens |-> Some(3), completion_tokens |-> Some(5)]

(***************************************************************************)
(* What the Tee still does once the receiver is gone.                      *)
(***************************************************************************)
\* Data frames read, and chunks fed, since the receiver was dropped.
ReadSinceDrop == FramesRead - at_drop[1][1]
FedSinceDrop == Len(fed) - at_drop[1][2]

\* C23: at every state the chunks fed to the parser are at most one more than
\* the data items the channel accepted; once the receiver is dropped the Tee
\* reads at most one more data frame and feeds at most one more chunk; when
\* that feed returns, the send that follows it fails and takes the Tee out of
\* its loop to finalize (a feed that panics ends the task there, within the
\* same bound).
C23_OneFrameAfterDrop ==
    /\ [](Len(fed) <= Len(Chunks(enqueued)) + 1)
    /\ [](IsSome(at_drop) => ReadSinceDrop \in {0, 1} /\ FedSinceDrop \in {0, 1})
    /\ []((IsSome(at_drop) /\ FedSinceDrop = 1) =>
            pc \in {"send", "panicked", "finalize", "emit", "done"})
    /\ [][(IsSome(at_drop) /\ pc = "send" /\ pc' # pc) =>
            pc' = "finalize" /\ exit' = "disconnect" /\ enqueued' = enqueued]_vars
    /\ []((IsSome(at_drop) /\ pc \in {"emit", "done"}) => finalized = 1)

\* The receiver was dropped while the Tee waited for a frame: the Tee read one
\* more data frame, fed it, failed to send it and returned, finalized, with
\* frames left unread upstream.
C23_Witness ==
    /\ pc = "done"
    /\ exit = "disconnect"
    /\ IsSome(at_drop)
    /\ ReadSinceDrop = 1
    /\ FedSinceDrop = 1
    /\ Len(fed) = Len(Chunks(enqueued)) + 1
    /\ Len(enqueued) >= 1
    /\ upstream # <<>>
    /\ finalized = 1

\* The receiver was dropped after the Tee, at the end of the stream, had left
\* its loop: nothing more was read or fed.
DropAfterLoop ==
    /\ pc = "done"
    /\ exit = "eof"
    /\ IsSome(at_drop)
    /\ ReadSinceDrop = 0
    /\ FedSinceDrop = 0
    /\ Len(fed) = Len(Chunks(enqueued))
    /\ fed # <<>>

\* The one chunk fed after the drop made the parser panic: the Tee ended in
\* feed_chunk, without finalize.
PanicAfterDrop ==
    /\ pc = "panicked"
    /\ IsSome(at_drop)
    /\ FedSinceDrop = 1
    /\ finalized = 0

(***************************************************************************)
(* What a client that keeps reading gets.                                  *)
(***************************************************************************)
\* One request whose client never goes away.
ReadingClientNext ==
    \/ HandlerUpstreamFails
    \/ HandlerStreams
    \/ TeeStart
    \/ TeeReadFrame
    \/ TeeFeed
    \/ TeeSend
    \/ TeeEndOfStream
    \/ TeeReadError
    \/ TeeSendError
    \/ TeeFinalize
    \/ TeeEmit
    \/ ClientReceive
    \/ ClientEndOfStream

\* The response body is polled for as long as it has something to yield.
ClientFairness == WF_vars(ClientReceive) /\ WF_vars(ClientEndOfStream)

ReadingClientSpec ==
    Init /\ [][ReadingClientNext]_vars /\ TeeFairness /\ ClientFairness

\* The items the upstream body stands for: one data item per data frame in
\* arrival order, then one error item when the body ends with a read error.
ItemsOfBody ==
    [i \in 1..Len(Arrival) |-> DataItem(Arrival[i])]
        \o (IF upstream_end = "error" THEN <<ErrorItem>> ELSE <<>>)

\* C24: when the client keeps taking what is queued, it ends up having
\* received every data frame of the body in order, then the error item if the
\* body ended with a read error, then the end of the stream; and it never
\* sees the end of the stream while an enqueued item is undelivered.
C24_ClientCompletion ==
    /\ [](rx = "eof" => received = enqueued /\ chan = <<>>)
    /\ (pc = "spawned") ~> (rx = "eof" /\ received = ItemsOfBody)

\* The part of C24 that holds: the end of the stream comes after everything
\* enqueued was delivered, and the client gets the whole body unless the
\* parser panicked; then it gets the frames enqueued before the panic, and
\* the end of the stream.
ClientCompletionUnlessPanicked ==
    /\ [](rx = "eof" => received = enqueued /\ chan = <<>>)
    /\ (pc = "spawned") ~>
          (/\ rx = "eof"
           /\ received = enqueued
           /\ IsPrefix(received, ItemsOfBody)
           /\ (pc # "panicked" => received = ItemsOfBody))

\* The stream of the client ended although the body had more: the parser
\* panicked on a frame, which was never forwarded, nor were those after it.
TruncatedByPanic ==
    /\ rx = "eof"
    /\ pc = "panicked"
    /\ Len(received) < Len(ItemsOfBody)
    /\ received # <<>>
    /\ upstream # <<>>

\* A body of three data frames ending with a read error was delivered whole:
\* three data items, the error item, the end of the stream.
DeliveredWithError ==
    /\ rx = "eof"
    /\ pc = "done"
    /\ upstream_end = "error"
    /\ Len(received) = 4
    /\ received = ItemsOfBody
    /\ ~received[4].ok

(***************************************************************************)
(* OpenAI: the chunks a stream comes in.                                   *)
(***************************************************************************)
\* Whether a fresh parser of the kind, fed the bytes as one chunk and
\* finalized, panics.
OneChunkPanics(kind, bytes) == Finalize(FeedChunk(ParserNew(kind), bytes)).panicked

\* Invariance under chunking for the streams that satisfy ok: a stream that
\* was fed in chunks and finalized gave what one chunk gives, and a stream
\* one of whose chunks made feed_chunk panic panics as one chunk too.
OpenAIChunkingInvarianceOf(ok) ==
    (backend_type = "OpenAI" /\ ok) =>
        /\ pc = "parsed" =>
              /\ ~OneChunkPanics("OpenAI", FedBytes)
              /\ token_usage = OneChunk("OpenAI", FedBytes)
        /\ pc = "panicked" => OneChunkPanics("OpenAI", StreamOf(pieces))

\* C25: whatever the bytes and whatever the chunks they are fed in, an OpenAI
\* parser finalizes to what it finalizes to when fed the same bytes as one
\* chunk.
C25_OpenAIChunkingInvariance == OpenAIChunkingInvarianceOf(TRUE)

\* The part of C25 that holds: streams of UTF-8 events, cut anywhere.
OpenAIChunkingInvarianceUtf8 == OpenAIChunkingInvarianceOf(Utf8Events)

\* A stream that is parsed to the end as one chunk made the parser panic when
\* a chunk ended between the invalid byte's event and the next one.
PanicDependsOnChunks ==
    /\ pc = "panicked"
    /\ backend_type = "OpenAI"
    /\ Len(pieces) = 2
    /\ pieces[1].bytes = OpenAIBadUtf8Event
    /\ pieces[2].bytes = OpenAIUsageEvent2
    /\ ~OneChunkPanics("OpenAI", StreamOf(pieces))

\* Two UTF-8 usage events fed in chunks that split an event: the usage of
\* one chunk, that of the second event, came out.
SplitEventsSameUsage ==
    /\ pc = "parsed"
    /\ backend_type = "OpenAI"
    /\ rest = <<>>
    /\ Len(pieces) = 2
    /\ pieces[1].bytes = OpenAIUsageEvent
    /\ pieces[2].bytes = OpenAIUsageEvent2
    /\ parser.cuts = <<Len(OpenAIUsageEvent), Len(OpenAIUsageEvent2)>>
    /\ midline
    /\ token_usage = [prompt_tokens |-> Some(1), completion_tokens |-> Some(2)]

====
